---- MODULE Spec2Model ----
(***************************************************************************)
(* A model of the channel logger of src/logger.go: the severity queues,    *)
(* the mediator goroutine (mediateChannels), the shutdown sequence         *)
(* (genericshutdownSequence), the drain goroutine (drainLogChannels), the  *)
(* sync.WaitGroup the logger owns and the public calls of Mylogger.        *)
(*                                                                         *)
(* A goroutine is a thread with a program counter; every statement that    *)
(* touches shared state (a channel, the WaitGroup, the sink, the process)  *)
(* is one step.  A Go panic and os.Exit end the process: exitStatus        *)
(* leaves -1 and no step is enabled any more.                              *)
(***************************************************************************)
EXTENDS Integers, Sequences, FiniteSets, TLC

\* ---------------------------------------------------------------- bounds
\* Capacity of a severity queue in the model (the program's chBufSize is
\* 100, src/logger.go:130; the model scales it down).
BufSize == 2
\* Calls the environment makes in one run: the client's calls of Error,
\* Warning, Info, Debug, Critical, Quit, Shutdown and AddToWaitGroup, and the
\* signals the OS delivers.
MaxCalls == 3
\* Background units that may call AddToWaitGroup/Done.
MaxUnits == 1
\* User goroutines that may call Shutdown.
MaxCallers == 2

\* How far beyond the declared errorType values the lookups are tried.
OutOfRange == 2

\* ------------------------------------------------------- program constants
\* make(chan any, 1) and make(chan os.Signal, 1) in StartLogger.
QuitCap == 1
SigsCap == 1

\* ------------------------------------------------------------ vocabulary
\* errorType values that own a queue.
Severities == {"ERROR", "WARNING", "INFO", "DEBUG", "CRITICAL"}
\* The four receive cases of mediateChannels' select.
Mediated == {"ERROR", "WARNING", "INFO", "DEBUG"}
\* chList of drainLogChannels, in its order.
chList == <<"ERROR", "WARNING", "INFO", "DEBUG">>
\* Dynamic type of a payload (any): an error, a string, anything else.
Kinds == {"error", "string", "other"}
Callers == 1..MaxCallers
\* The mediator goroutine is thread 0, the Shutdown callers 1..MaxCallers.
Med == 0
Threads == {Med} \cup Callers
Units == 1..MaxUnits
\* The zero value a receive on a closed, empty channel yields (a nil any).
NilMsg == [id |-> 0, kind |-> "other"]

\* ------------------------------------------------------ severity lookups
\* The errorType values (iota) and the Color values (iota).
DEBUG == 0
DONE == 1
CRITICAL == 2
ERROR == 3
WARNING == 4
INFO == 5
INTSIGNAL == 6
QUIT == 7

RED == 0
GREEN == 1
GRAY == 2
WHITE == 3
YELLOW == 4
PURPLE == 5
BLUE == 6

debugColor == BLUE
critColor == PURPLE
errColor == RED
warnColor == YELLOW
baseColor == WHITE

\* The errorType values the lookups are tried on: the declared ones and
\* OutOfRange integers on either side.
ErrorTypes == (DEBUG - OutOfRange)..(QUIT + OutOfRange)
\* Readings of the clock (time.Now().Format(timeFormat)).
Clock == {"t1", "t2"}
\* The package-level channel variables channel() can return.
ChanNames == {"debug", "crit", "err", "warn", "info", "done", "sigs"}

\* Color.Color(): the escape sequence of a color, "" for any other value.
\* ESC stands for the escape character.
ColorCode(c) ==
    CASE c = RED -> "ESC[31m"
      [] c = GREEN -> "ESC[32m"
      [] c = GRAY -> "ESC[37m"
      [] c = WHITE -> "ESC[97m"
      [] c = YELLOW -> "ESC[33m"
      [] c = PURPLE -> "ESC[35m"
      [] c = BLUE -> "ESC[34m"
      [] OTHER -> ""

\* colorWrap: c.Color() + m + Reset, a string as the sequence of its parts.
colorWrap(c, m) == <<ColorCode(c), m, "ESC[0m">>

\* Mutant of Color: a value without a case gets the color of an error.
ColorDefaultsRed(e) ==
    CASE e = DEBUG -> debugColor
      [] e = CRITICAL -> critColor
      [] e = ERROR -> errColor
      [] e = WARNING -> warnColor
      [] e = INFO -> baseColor
      [] OTHER -> errColor

\* errorType.Color()
Color(e) ==
    CASE e = DEBUG -> debugColor
      [] e = CRITICAL -> critColor
      [] e = ERROR -> errColor
      [] e = WARNING -> warnColor
      [] e = INFO -> baseColor
      [] OTHER -> baseColor

\* errorType.String(), with now the reading of the clock.
String(e, now) ==
    <<now, ":">> \o
    CASE e = DEBUG -> colorWrap(Color(e), "DEBUG:")
      [] e = CRITICAL -> colorWrap(Color(e), "CRITICAL:")
      [] e = ERROR -> colorWrap(Color(e), "ERROR:")
      [] e = WARNING -> colorWrap(Color(e), "WARNING:")
      [] e = INFO -> colorWrap(Color(e), "INFO:")
      [] OTHER -> colorWrap(Color(e), "INFO:")

\* errorType.channel(): the package-level channel variable it returns.
channel(e) ==
    CASE e = DEBUG -> "debug"
      [] e = CRITICAL -> "crit"
      [] e = ERROR -> "err"
      [] e = WARNING -> "warn"
      [] e = INFO -> "info"
      [] e = DONE -> "done"
      [] e = INTSIGNAL -> "sigs"
      [] OTHER -> "info"

\* No lookup recorded yet.
NoLookups ==
    [String |-> [made |-> FALSE, e |-> INFO, now |-> "t1", out |-> <<>>],
     Color |-> [made |-> FALSE, e |-> INFO, out |-> baseColor],
     channel |-> [made |-> FALSE, e |-> INFO, out |-> "info"]]

VARIABLES
    verbose,     \* Mylogger.verbose
    q,           \* the buffered contents of crit, err, warn, info, debug
    closed,      \* whether each severity channel has been closed
    doneClosed,  \* whether chans.done has been closed
    quitq,       \* values buffered in chans.quit
    sigq,        \* signals buffered in chans.sigs
    shutq,       \* values buffered in chans.shutdown (src/unnamed/part_001)
    wg,          \* the WaitGroup counter
    adds,        \* AddToWaitGroup calls made so far
    dones,       \* Done calls made so far
    pc,          \* where each thread is
    arg,         \* the error argument of the sequence a thread runs
    mmsg,        \* the message the mediator received and has not printed
    dpc,         \* where the drain goroutine started by each thread is
    didx,        \* the index into chList of that drain goroutine
    dmsg,        \* the message that drain goroutine received
    sink,        \* the lines written to the output file, in order
    exitStatus,  \* -1 while the process runs, else its exit status
    fault,       \* the panic that ended the process, "none" otherwise
    units,       \* state of every background unit
    emitted,     \* messages enqueued so far (message ids are 1..emitted)
    mark,        \* emitted when the Shutdown call that closed done was made
    early,       \* that call was made before the mediator had registered
    quitMark,    \* emitted when the first Quit call returned, else -1
    calls,       \* calls the environment has made so far
    looked       \* the last lookup made of String, Color and channel

\* What the logger's goroutines and calls never change.
cfgVars == <<verbose, looked>>
chanVars == <<q, closed, doneClosed, quitq, sigq, shutq>>
wgVars == <<wg, adds, dones>>
thrVars == <<pc, arg, mmsg>>
drainVars == <<dpc, didx, dmsg>>
procVars == <<exitStatus, fault>>
envVars == <<units, emitted, mark, early, quitMark, calls>>
vars == <<cfgVars, chanVars, wgVars, thrVars, drainVars, sink, procVars,
          envVars>>

Running == exitStatus = -1

\* ------------------------------------------------------------- helpers
\* cioe: an error stays, a string becomes an error with that text, anything
\* else becomes a nil error (0 here; texts are the positive message ids).
cioe(a) ==
    CASE a.kind = "error" -> a.id
      [] a.kind = "string" -> a.id
      [] OTHER -> 0

\* A line of the sink: the logger that wrote it (its prefix), what the
\* line is, and for a message line the text (the message id).
Line(tag, what, text) == [log |-> tag, what |-> what, id |-> text]

Write(line) == sink' = Append(sink, line)

\* A Go panic: the process dies with status 2.
Panic(why) == exitStatus' = 2 /\ fault' = why

\* os.Exit(code)
Exit(code) == exitStatus' = code /\ fault' = fault

\* wg.Add(1) through AddToWaitGroup
WgAdd == wg' = wg + 1 /\ adds' = adds + 1 /\ dones' = dones

\* wg.Done(): a negative counter panics.
WgDoneOk == wg > 0

WgDone == wg' = wg - 1 /\ dones' = dones + 1 /\ adds' = adds

\* Mutant of WgWaitReturns: the wait lets one outstanding unit through.
WgWaitReturnsOffByOne == wg <= 1

\* Mutant of WgWaitReturns: the wait never blocks.
WgWaitReturnsAlways == wg >= 0

\* wg.Wait() returns when the counter is zero.
WgWaitReturns == wg = 0

\* The receive case on severity channel c is ready: a buffered value, or a
\* closed channel (which yields the zero value at once).
RecvReady(c) == Len(q[c]) > 0 \/ closed[c]

\* The value a ready receive on c yields.
RecvValue(c) == IF Len(q[c]) > 0 THEN Head(q[c]) ELSE NilMsg

\* Mutant of RecvRest: the receive leaves the value in the channel.
RecvRestKeeps(c) == q

\* The queues after that receive.
RecvRest(c) == IF Len(q[c]) > 0 THEN [q EXCEPT ![c] = Tail(q[c])] ELSE q

\* close(l.chans.done) by thread t, which then waits: closing a closed
\* channel panics.
CloseDone(t) ==
    IF doneClosed
      THEN /\ Panic("close of closed channel")
           /\ UNCHANGED <<doneClosed, pc>>
      ELSE /\ doneClosed' = TRUE
           /\ pc' = [pc EXCEPT ![t] = "wait1"]
           /\ UNCHANGED procVars

Init ==
    /\ verbose \in BOOLEAN
    /\ q = [s \in Severities |-> <<>>]
    /\ closed = [s \in Severities |-> FALSE]
    /\ doneClosed = FALSE
    /\ quitq = 0
    /\ sigq = 0
    /\ shutq = 0
    /\ wg = 0
    /\ adds = 0
    /\ dones = 0
    /\ pc = [t \in Threads |-> IF t = Med THEN "start" ELSE "idle"]
    /\ arg = [t \in Threads |-> "nil"]
    /\ mmsg = [sev |-> "INFO", m |-> NilMsg]
    /\ dpc = [t \in Threads |-> "none"]
    /\ didx = [t \in Threads |-> 1]
    /\ dmsg = [t \in Threads |-> NilMsg]
    /\ sink = <<>>
    /\ exitStatus = -1
    /\ fault = "none"
    /\ units = [u \in Units |-> "idle"]
    /\ emitted = 0
    /\ mark = -1
    /\ early = FALSE
    /\ quitMark = -1
    /\ calls = 0
    /\ looked = NoLookups

\* ------------------------------------------- StartLogger's goroutine
\* signal.Notify(sigs, SIGINT, SIGTERM)
StartNotify ==
    /\ Running
    /\ pc[Med] = "start"
    /\ pc' = [pc EXCEPT ![Med] = "register"]
    /\ UNCHANGED <<cfgVars, chanVars, wgVars, arg, mmsg, drainVars, sink,
                   procVars, envVars>>

\* Mutant of StartRegister: the goroutine enters mediateChannels without
\* registering itself.
StartRegisterMissing ==
    /\ Running
    /\ pc[Med] = "register"
    /\ pc' = [pc EXCEPT ![Med] = "select"]
    /\ UNCHANGED <<cfgVars, chanVars, wgVars, arg, mmsg, drainVars, sink,
                   procVars, envVars>>

\* l.AddToWaitGroup(), then mediateChannels(&l)
StartRegister ==
    /\ Running
    /\ pc[Med] = "register"
    /\ WgAdd
    /\ pc' = [pc EXCEPT ![Med] = "select"]
    /\ UNCHANGED <<cfgVars, chanVars, arg, mmsg, drainVars, sink, procVars,
                   envVars>>

\* ------------------------------------------------- mediateChannels
\* case <-l.chans.done: l.Done(); return
MedDone ==
    /\ Running
    /\ pc[Med] = "select"
    /\ doneClosed
    /\ IF WgDoneOk
         THEN /\ WgDone
              /\ pc' = [pc EXCEPT ![Med] = "stopped"]
              /\ UNCHANGED procVars
         ELSE /\ Panic("negative WaitGroup counter")
              /\ UNCHANGED <<wgVars, pc>>
    /\ UNCHANGED <<cfgVars, chanVars, arg, mmsg, drainVars, sink, envVars>>

\* Mutant of MedQuit: the quit case runs the graceful shutdown sequence.
MedQuitGraceful ==
    /\ Running
    /\ pc[Med] = "select"
    /\ quitq > 0
    /\ quitq' = quitq - 1
    /\ Write(Line("WARNING", "quit", 0))
    /\ pc' = [pc EXCEPT ![Med] = "close"]
    /\ UNCHANGED <<cfgVars, q, closed, doneClosed, sigq, shutq, wgVars, arg,
                   mmsg, drainVars, procVars, envVars>>

\* Mutant of MedQuit: the quit case releases the mediator's registration.
MedQuitReleases ==
    /\ Running
    /\ pc[Med] = "select"
    /\ quitq > 0
    /\ WgDoneOk
    /\ WgDone
    /\ quitq' = quitq - 1
    /\ Write(Line("WARNING", "quit", 0))
    /\ pc' = [pc EXCEPT ![Med] = "stopped"]
    /\ UNCHANGED <<cfgVars, q, closed, doneClosed, sigq, shutq, arg, mmsg,
                   drainVars, procVars, envVars>>

\* case <-l.chans.quit:
\*     l.warnlog.Println("Received Quit Signal, shutting down logger")
\*     return
MedQuit ==
    /\ Running
    /\ pc[Med] = "select"
    /\ quitq > 0
    /\ quitq' = quitq - 1
    /\ Write(Line("WARNING", "quit", 0))
    /\ pc' = [pc EXCEPT ![Med] = "stopped"]
    /\ UNCHANGED <<cfgVars, q, closed, doneClosed, sigq, shutq, wgVars, arg,
                   mmsg, drainVars, procVars, envVars>>

\* Mutant of MedRecv: the done case has priority over the message cases.
MedRecvUnlessDone(c) ==
    /\ Running
    /\ pc[Med] = "select"
    /\ ~doneClosed
    /\ RecvReady(c)
    /\ mmsg' = [sev |-> c, m |-> RecvValue(c)]
    /\ q' = RecvRest(c)
    /\ pc' = [pc EXCEPT ![Med] = "print"]
    /\ UNCHANGED <<cfgVars, closed, doneClosed, quitq, sigq, shutq, wgVars, arg,
                   drainVars, sink, procVars, envVars>>

\* case e := <-l.chans.err / warn / info / debug
MedRecv(c) ==
    /\ Running
    /\ pc[Med] = "select"
    /\ RecvReady(c)
    /\ mmsg' = [sev |-> c, m |-> RecvValue(c)]
    /\ q' = RecvRest(c)
    /\ pc' = [pc EXCEPT ![Med] = "print"]
    /\ UNCHANGED <<cfgVars, closed, doneClosed, quitq, sigq, shutq, wgVars, arg,
                   drainVars, sink, procVars, envVars>>

\* l.errlog.Println(cioe(e).Error()) and its three siblings: Error() on the
\* nil error cioe returns for any other payload is a nil dereference.
MedPrint ==
    /\ Running
    /\ pc[Med] = "print"
    /\ IF cioe(mmsg.m) = 0
         THEN /\ Panic("nil dereference")
              /\ UNCHANGED <<sink, pc, mmsg>>
         ELSE /\ Write(Line(mmsg.sev, "msg", cioe(mmsg.m)))
              /\ pc' = [pc EXCEPT ![Med] = "select"]
              /\ mmsg' = [sev |-> "INFO", m |-> NilMsg]
              /\ UNCHANGED procVars
    /\ UNCHANGED <<cfgVars, chanVars, wgVars, arg, drainVars, envVars>>

\* case s := <-l.chans.sigs:
\*     l.infolog.Println("Received Signal: ", s.String())
\*     l.genericshutdownSequence(nil)
MedSig ==
    /\ Running
    /\ pc[Med] = "select"
    /\ sigq > 0
    /\ sigq' = sigq - 1
    /\ Write(Line("INFO", "signal", 0))
    /\ pc' = [pc EXCEPT ![Med] = "close"]
    /\ arg' = [arg EXCEPT ![Med] = "nil"]
    /\ UNCHANGED <<cfgVars, q, closed, doneClosed, quitq, shutq, wgVars, mmsg,
                   drainVars, procVars, envVars>>

mediateChannels ==
    \/ MedDone
    \/ MedQuit
    \/ \E c \in Mediated : MedRecv(c)
    \/ MedPrint
    \/ MedSig

\* ------------------------------------------- genericshutdownSequence
\* close(l.chans.done), reached from the signal case of mediateChannels
SeqClose(t) ==
    /\ Running
    /\ pc[t] = "close"
    /\ CloseDone(t)
    /\ UNCHANGED <<cfgVars, q, closed, quitq, sigq, shutq, wgVars, arg, mmsg,
                   drainVars, sink, envVars>>

\* Mutant of SeqWait1: the first wait is missing.
SeqWait1Missing(t) ==
    /\ Running
    /\ pc[t] = "wait1"
    /\ pc' = [pc EXCEPT ![t] = "report"]
    /\ UNCHANGED <<cfgVars, chanVars, wgVars, arg, mmsg, drainVars, sink,
                   procVars, envVars>>

\* l.wg.Wait(), the first one
SeqWait1(t) ==
    /\ Running
    /\ pc[t] = "wait1"
    /\ WgWaitReturns
    /\ pc' = [pc EXCEPT ![t] = "report"]
    /\ UNCHANGED <<cfgVars, chanVars, wgVars, arg, mmsg, drainVars, sink,
                   procVars, envVars>>

\* if l.verbose { l.debuglog.Println("All tracked Routines stopped") }
\* l.infolog.Printf("Server ran for %s", time.Since(l.StartTime()))
SeqReport(t) ==
    /\ Running
    /\ pc[t] = "report"
    /\ sink' = (IF verbose THEN Append(sink, Line("DEBUG", "stopped", 0))
                           ELSE sink) \o <<Line("INFO", "uptime", 0)>>
    /\ pc' = [pc EXCEPT ![t] = IF arg[t] = "nil" THEN "shutmsg" ELSE "errmsg"]
    /\ UNCHANGED <<cfgVars, chanVars, wgVars, arg, mmsg, drainVars,
                   procVars, envVars>>

\* l.warnlog.Println("Server exited with error: ", e.Error())
SeqErrMsg(t) ==
    /\ Running
    /\ pc[t] = "errmsg"
    /\ Write(Line("WARNING", "error", 0))
    /\ pc' = [pc EXCEPT ![t] = "exit1"]
    /\ UNCHANGED <<cfgVars, chanVars, wgVars, arg, mmsg, drainVars,
                   procVars, envVars>>

\* Mutant of SeqExit1: the os.Exit(1) is missing and the sequence goes on.
SeqExit1Missing(t) ==
    /\ Running
    /\ pc[t] = "exit1"
    /\ pc' = [pc EXCEPT ![t] = "shutmsg"]
    /\ UNCHANGED <<cfgVars, chanVars, wgVars, arg, mmsg, drainVars, sink,
                   procVars, envVars>>

\* os.Exit(1)
SeqExit1(t) ==
    /\ Running
    /\ pc[t] = "exit1"
    /\ Exit(1)
    /\ pc' = [pc EXCEPT ![t] = "exited"]
    /\ UNCHANGED <<cfgVars, chanVars, wgVars, arg, mmsg, drainVars, sink,
                   envVars>>

\* l.infolog.Printf("Shutting Down...")
SeqShutMsg(t) ==
    /\ Running
    /\ pc[t] = "shutmsg"
    /\ Write(Line("INFO", "shutting", 0))
    /\ pc' = [pc EXCEPT ![t] = "add"]
    /\ UNCHANGED <<cfgVars, chanVars, wgVars, arg, mmsg, drainVars,
                   procVars, envVars>>

\* l.AddToWaitGroup()
SeqAdd(t) ==
    /\ Running
    /\ pc[t] = "add"
    /\ WgAdd
    /\ pc' = [pc EXCEPT ![t] = "go"]
    /\ UNCHANGED <<cfgVars, chanVars, arg, mmsg, drainVars, sink, procVars,
                   envVars>>

\* go l.drainLogChannels()
SeqGo(t) ==
    /\ Running
    /\ pc[t] = "go"
    /\ dpc' = [dpc EXCEPT ![t] = "select"]
    /\ pc' = [pc EXCEPT ![t] = "wait2"]
    /\ UNCHANGED <<cfgVars, chanVars, wgVars, arg, mmsg, didx, dmsg, sink,
                   procVars, envVars>>

\* l.wg.Wait(), the second one
SeqWait2(t) ==
    /\ Running
    /\ pc[t] = "wait2"
    /\ WgWaitReturns
    /\ pc' = [pc EXCEPT ![t] = "ret"]
    /\ UNCHANGED <<cfgVars, chanVars, wgVars, arg, mmsg, drainVars, sink,
                   procVars, envVars>>

\* return true: to Shutdown's caller, or to the loop of mediateChannels.
SeqReturn(t) ==
    /\ Running
    /\ pc[t] = "ret"
    /\ pc' = [pc EXCEPT ![t] = IF t = Med THEN "select" ELSE "returned"]
    /\ UNCHANGED <<cfgVars, chanVars, wgVars, arg, mmsg, drainVars, sink,
                   procVars, envVars>>

genericshutdownSequence(t) ==
    \/ SeqClose(t)
    \/ SeqWait1(t)
    \/ SeqReport(t)
    \/ SeqErrMsg(t)
    \/ SeqExit1(t)
    \/ SeqShutMsg(t)
    \/ SeqAdd(t)
    \/ SeqGo(t)
    \/ SeqWait2(t)
    \/ SeqReturn(t)

\* --------------------------------------------------- drainLogChannels
\* After drainAndClose(chList[didx]) the loop goes to the next severity, or
\* the function returns.
DrainAdvance(t) ==
    IF didx[t] < Len(chList)
      THEN /\ didx' = [didx EXCEPT ![t] = didx[t] + 1]
           /\ dpc' = [dpc EXCEPT ![t] = "select"]
      ELSE /\ didx' = didx
           /\ dpc' = [dpc EXCEPT ![t] = "ret"]

\* drainAndClose's select: case m := <-e.channel() when it is ready,
\* default: close(e.channel()) otherwise.
DrainSelect(t) ==
    /\ Running
    /\ dpc[t] = "select"
    /\ LET c == chList[didx[t]] IN
         IF RecvReady(c)
           THEN /\ dmsg' = [dmsg EXCEPT ![t] = RecvValue(c)]
                /\ q' = RecvRest(c)
                /\ dpc' = [dpc EXCEPT ![t] = "print"]
                /\ UNCHANGED <<closed, didx>>
           ELSE /\ closed' = [closed EXCEPT ![c] = TRUE]
                /\ DrainAdvance(t)
                /\ UNCHANGED <<q, dmsg>>
    /\ UNCHANGED <<cfgVars, doneClosed, quitq, sigq, shutq, wgVars, thrVars,
                   sink, procVars, envVars>>

\* l.errlog.Println(cioe(m).Error()) and its siblings
DrainPrint(t) ==
    /\ Running
    /\ dpc[t] = "print"
    /\ IF cioe(dmsg[t]) = 0
         THEN /\ Panic("nil dereference")
              /\ UNCHANGED <<sink, drainVars>>
         ELSE /\ Write(Line(chList[didx[t]], "msg", cioe(dmsg[t])))
              /\ DrainAdvance(t)
              /\ dmsg' = [dmsg EXCEPT ![t] = NilMsg]
              /\ UNCHANGED procVars
    /\ UNCHANGED <<cfgVars, chanVars, wgVars, thrVars, envVars>>

\* defer l.wg.Done()
DrainReturn(t) ==
    /\ Running
    /\ dpc[t] = "ret"
    /\ IF WgDoneOk
         THEN /\ WgDone
              /\ dpc' = [dpc EXCEPT ![t] = "done"]
              /\ UNCHANGED procVars
         ELSE /\ Panic("negative WaitGroup counter")
              /\ UNCHANGED <<wgVars, dpc>>
    /\ UNCHANGED <<cfgVars, chanVars, thrVars, didx, dmsg, sink, envVars>>

drainLogChannels(t) ==
    \/ DrainSelect(t)
    \/ DrainPrint(t)
    \/ DrainReturn(t)

\* ------------------------------------------------------ public calls
\* Mutant of Send: a send on a full channel does not block, it overwrites
\* the newest buffered value.
SendOverwrite(c, k) ==
    /\ Running
    /\ calls < MaxCalls
    /\ ~closed[c]
    /\ q' = [q EXCEPT ![c] =
                IF Len(q[c]) < BufSize
                  THEN Append(q[c], [id |-> emitted + 1, kind |-> k])
                  ELSE [q[c] EXCEPT ![BufSize] =
                           [id |-> emitted + 1, kind |-> k]]]
    /\ emitted' = emitted + 1
    /\ calls' = calls + 1
    /\ UNCHANGED <<cfgVars, closed, doneClosed, quitq, sigq, shutq, wgVars,
                   thrVars, drainVars, sink, procVars, units, mark, early,
                   quitMark>>

\* l.chans.<c> <- a: a send on a closed channel panics, a send on a full
\* channel blocks (the step is not enabled), otherwise the value is buffered.
\* The message gets the next id; its payload has dynamic type k.
Send(c, k) ==
    /\ Running
    /\ calls < MaxCalls
    /\ closed[c] \/ Len(q[c]) < BufSize
    /\ IF closed[c]
         THEN /\ Panic("send on closed channel")
              /\ UNCHANGED <<q, emitted>>
         ELSE /\ q' = [q EXCEPT ![c] =
                           Append(q[c], [id |-> emitted + 1, kind |-> k])]
              /\ emitted' = emitted + 1
              /\ UNCHANGED procVars
    /\ calls' = calls + 1
    /\ UNCHANGED <<cfgVars, closed, doneClosed, quitq, sigq, shutq, wgVars,
                   thrVars, drainVars, sink, units, mark, early, quitMark>>

Error(k) == Send("ERROR", k)

Warning(k) == Send("WARNING", k)

Info(k) == Send("INFO", k)

\* Mutant of Debug: the verbose test is missing.
DebugAlways(k) == Send("DEBUG", k)

\* if l.verbose { l.chans.debug <- a } else { return }
Debug(k) ==
    IF verbose
      THEN Send("DEBUG", k)
      ELSE /\ Running
           /\ calls < MaxCalls
           /\ calls' = calls + 1
           /\ UNCHANGED <<cfgVars, chanVars, wgVars, thrVars, drainVars,
                          sink, procVars, units, emitted, mark, early,
                          quitMark>>

\* l.chans.quit <- a: blocks while the channel holds QuitCap values.
Quit ==
    /\ Running
    /\ calls < MaxCalls
    /\ quitq < QuitCap
    /\ quitq' = quitq + 1
    /\ calls' = calls + 1
    /\ quitMark' = IF quitMark = -1 THEN emitted ELSE quitMark
    /\ UNCHANGED <<cfgVars, q, closed, doneClosed, sigq, shutq, wgVars, thrVars,
                   drainVars, sink, procVars, units, emitted, mark, early>>

\* err := cioe(a); l.critlog.Fatal(err.Error()): Fatal prints and calls
\* os.Exit(1); Error() on a nil error is a nil dereference.
Critical(k) ==
    /\ Running
    /\ calls < MaxCalls
    /\ calls' = calls + 1
    /\ IF cioe([id |-> emitted + 1, kind |-> k]) = 0
         THEN /\ Panic("nil dereference in Critical")
              /\ UNCHANGED sink
         ELSE /\ Write(Line("CRITICAL", "fatal", 0))
              /\ Exit(1)
    /\ UNCHANGED <<cfgVars, chanVars, wgVars, thrVars, drainVars, units,
                   emitted, mark, early, quitMark>>

\* Shutdown(e): genericshutdownSequence(e) on the caller's goroutine, up to
\* and with its first statement, close(l.chans.done).  Callers are
\* interchangeable: they call in the order of their numbers.
Shutdown(t, e) ==
    /\ Running
    /\ pc[t] = "idle"
    /\ calls < MaxCalls
    /\ calls' = calls + 1
    /\ \A t2 \in Callers : t2 < t => pc[t2] # "idle"
    /\ CloseDone(t)
    /\ arg' = [arg EXCEPT ![t] = e]
    /\ mark' = IF doneClosed THEN mark ELSE emitted
    /\ early' = IF doneClosed THEN early ELSE pc[Med] \in {"start", "register"}
    /\ UNCHANGED <<cfgVars, q, closed, quitq, sigq, shutq, wgVars, mmsg,
                   drainVars, sink, units, emitted, quitMark>>

\* A background unit registers itself; "working" when it does so before the
\* done channel is closed, "late" when after.
AddToWaitGroup(u) ==
    /\ Running
    /\ units[u] = "idle"
    /\ calls < MaxCalls
    /\ calls' = calls + 1
    /\ WgAdd
    /\ units' = [units EXCEPT ![u] =
                    IF doneClosed THEN "late" ELSE "working"]
    /\ UNCHANGED <<cfgVars, chanVars, thrVars, drainVars, sink, procVars,
                   emitted, mark, early, quitMark>>

\* A registered background unit signals that it has finished.
Done(u) ==
    /\ Running
    /\ units[u] \in {"working", "late"}
    /\ IF WgDoneOk
         THEN /\ WgDone
              /\ units' = [units EXCEPT ![u] = "finished"]
              /\ UNCHANGED procVars
         ELSE /\ Panic("negative WaitGroup counter")
              /\ UNCHANGED <<wgVars, units>>
    /\ UNCHANGED <<cfgVars, chanVars, thrVars, drainVars, sink, emitted,
                   mark, early, quitMark, calls>>

\* The OS delivers SIGINT or SIGTERM once signal.Notify has run: the runtime
\* sends without blocking, so a signal is dropped when sigs is full.
Signal ==
    /\ Running
    /\ pc[Med] # "start"
    /\ calls < MaxCalls
    /\ calls' = calls + 1
    /\ sigq' = IF sigq < SigsCap THEN sigq + 1 ELSE sigq
    /\ UNCHANGED <<cfgVars, q, closed, doneClosed, quitq, shutq, wgVars,
                   thrVars, drainVars, sink, procVars, units, emitted, mark,
                   early, quitMark>>

\* ------------------------------------------------------ specification
Next ==
    \/ StartNotify
    \/ StartRegister
    \/ mediateChannels
    \/ \E t \in Threads : genericshutdownSequence(t)
    \/ \E t \in Threads : drainLogChannels(t)
    \/ \E k \in Kinds : Error(k)
    \/ \E k \in Kinds : Warning(k)
    \/ \E k \in Kinds : Info(k)
    \/ \E k \in Kinds : Debug(k)
    \/ Quit
    \/ \E k \in Kinds : Critical(k)
    \/ \E t \in Callers, e \in {"nil", "err"} : Shutdown(t, e)
    \/ \E u \in Units : AddToWaitGroup(u)
    \/ \E u \in Units : Done(u)
    \/ Signal

Spec == Init /\ [][Next]_vars

\* Go's select chooses uniformly at random among its ready cases, so a case
\* that is ready again and again is taken (strong fairness); a goroutine
\* that can run its next statement runs it (weak fairness).  The client's
\* calls and the OS's signals are under no obligation, except that a unit
\* that registered itself calls Done.
Fairness ==
    /\ WF_vars(StartNotify)
    /\ WF_vars(StartRegister)
    /\ SF_vars(MedDone)
    /\ SF_vars(MedQuit)
    /\ SF_vars(MedSig)
    /\ \A c \in Mediated : SF_vars(MedRecv(c))
    /\ WF_vars(MedPrint)
    /\ \A t \in Threads : WF_vars(genericshutdownSequence(t))
    /\ \A t \in Threads : WF_vars(drainLogChannels(t))
    /\ \A u \in Units : WF_vars(Done(u))

FairSpec == Init /\ [][Next]_vars /\ Fairness

\* ------------------------------------------- the logger while it logs
\* The logger before any shutdown trigger: the mediator loop runs and the
\* client emits, calls Critical or calls Quit.
NextEmit ==
    \/ StartNotify
    \/ StartRegister
    \/ \E c \in Mediated : MedRecv(c)
    \/ MedPrint
    \/ MedQuit
    \/ \E k \in Kinds : Error(k)
    \/ \E k \in Kinds : Warning(k)
    \/ \E k \in Kinds : Info(k)
    \/ \E k \in Kinds : Debug(k)
    \/ Quit
    \/ \E k \in Kinds : Critical(k)

SpecEmit == Init /\ [][NextEmit]_vars

FairnessEmit ==
    /\ WF_vars(StartNotify)
    /\ WF_vars(StartRegister)
    /\ SF_vars(MedQuit)
    /\ \A c \in Mediated : SF_vars(MedRecv(c))
    /\ WF_vars(MedPrint)

FairSpecEmit == Init /\ [][NextEmit]_vars /\ FairnessEmit

\* ------------------------------------ the variant of src/unnamed/part_001
\* In this variant Shutdown() sends on a shutdown channel, the mediator loop
\* runs genericshutdownSequence(nil) itself and does not register with the
\* WaitGroup, the drain ranges over five queues, and the sequence ends with
\* os.Exit(0).  mediateChannels' message, signal and quit cases, cioe, the
\* sequence up to l.AddToWaitGroup() and the emit calls have the same text
\* as in src/logger.go and are the same definitions here.

\* make(chan interface{}, 1) for shutdown in StartLogger.
ShutCap == 1

\* chList of drainChannel, in its order.
chListAll == <<"CRITICAL", "ERROR", "WARNING", "INFO", "DEBUG">>

\* signal.Notify(sigs, ...); mediateChannels(&l): no AddToWaitGroup here.
StartMediate ==
    /\ Running
    /\ pc[Med] = "start"
    /\ pc' = [pc EXCEPT ![Med] = "select"]
    /\ UNCHANGED <<cfgVars, chanVars, wgVars, arg, mmsg, drainVars, sink,
                   procVars, envVars>>

\* case <-l.chans.shutdown: l.genericshutdownSequence(nil)
MedShutdown ==
    /\ Running
    /\ pc[Med] = "select"
    /\ shutq > 0 \/ doneClosed
    /\ shutq' = IF shutq > 0 THEN shutq - 1 ELSE shutq
    /\ pc' = [pc EXCEPT ![Med] = "close"]
    /\ arg' = [arg EXCEPT ![Med] = "nil"]
    /\ UNCHANGED <<cfgVars, q, closed, doneClosed, quitq, sigq, wgVars, mmsg,
                   drainVars, sink, procVars, envVars>>

\* Shutdown(): l.chans.shutdown <- nil.  A send on the closed channel
\* panics, a send on the full channel blocks.
ShutdownSend ==
    /\ Running
    /\ calls < MaxCalls
    /\ calls' = calls + 1
    /\ doneClosed \/ shutq < ShutCap
    /\ IF doneClosed
         THEN /\ Panic("send on closed channel")
              /\ UNCHANGED <<shutq, mark>>
         ELSE /\ shutq' = shutq + 1
              /\ mark' = IF mark = -1 THEN emitted ELSE mark
              /\ UNCHANGED procVars
    /\ UNCHANGED <<cfgVars, q, closed, doneClosed, quitq, sigq, wgVars,
                   thrVars, drainVars, sink, units, emitted, early, quitMark>>

\* The goroutine drainChannel started by thread t can take a step: its
\* range loop has a value to receive or finds its channel closed, or it is
\* past the loops.
DrainCanStep(t) ==
    \/ /\ dpc[t] = "range"
       /\ Len(q[chListAll[didx[t]]]) > 0 \/ closed[chListAll[didx[t]]]
    \/ dpc[t] \in {"print", "output", "close", "ret"}

\* One step of drainChannel:
\*   for m := range e.channel() { ...Println(cioe(m).Error()) }  per queue,
\*   l.infolog.Output(2, "All logs drained. Closing log channels"),
\*   l.closeLogs() (five closes and its deferred l.wg.Done()),
\*   the deferred l.wg.Done() of drainChannel.
drainChannel(t) ==
    LET c == chListAll[didx[t]] IN
    CASE dpc[t] = "range" /\ Len(q[c]) > 0 ->
           /\ dmsg' = [dmsg EXCEPT ![t] = Head(q[c])]
           /\ q' = [q EXCEPT ![c] = Tail(q[c])]
           /\ dpc' = [dpc EXCEPT ![t] = "print"]
           /\ UNCHANGED <<closed, didx, sink, wgVars, procVars>>
      [] dpc[t] = "range" /\ Len(q[c]) = 0 ->
           /\ didx' = [didx EXCEPT ![t] =
                          IF didx[t] < Len(chListAll) THEN didx[t] + 1
                                                       ELSE didx[t]]
           /\ dpc' = [dpc EXCEPT ![t] =
                          IF didx[t] < Len(chListAll) THEN "range"
                                                       ELSE "output"]
           /\ UNCHANGED <<q, closed, dmsg, sink, wgVars, procVars>>
      [] dpc[t] = "print" ->
           /\ IF cioe(dmsg[t]) = 0
                THEN /\ Panic("nil dereference")
                     /\ UNCHANGED <<sink, dpc, dmsg>>
                ELSE /\ Write(Line(c, "msg", cioe(dmsg[t])))
                     /\ dpc' = [dpc EXCEPT ![t] = "range"]
                     /\ dmsg' = [dmsg EXCEPT ![t] = NilMsg]
                     /\ UNCHANGED procVars
           /\ UNCHANGED <<q, closed, didx, wgVars>>
      [] dpc[t] = "output" ->
           /\ Write(Line("INFO", "drained", 0))
           /\ dpc' = [dpc EXCEPT ![t] = "close"]
           /\ UNCHANGED <<q, closed, didx, dmsg, wgVars, procVars>>
      [] dpc[t] = "close" ->
           /\ IF \E s \in Severities : closed[s]
                THEN /\ Panic("close of closed channel")
                     /\ UNCHANGED <<closed, wgVars, dpc>>
                ELSE /\ closed' = [s \in Severities |-> TRUE]
                     /\ IF WgDoneOk
                          THEN /\ WgDone
                               /\ dpc' = [dpc EXCEPT ![t] = "ret"]
                               /\ UNCHANGED procVars
                          ELSE /\ Panic("negative WaitGroup counter")
                               /\ UNCHANGED <<wgVars, dpc>>
           /\ UNCHANGED <<q, didx, dmsg, sink>>
      [] dpc[t] = "ret" ->
           /\ IF WgDoneOk
                THEN /\ WgDone
                     /\ dpc' = [dpc EXCEPT ![t] = "done"]
                     /\ UNCHANGED procVars
                ELSE /\ Panic("negative WaitGroup counter")
                     /\ UNCHANGED <<wgVars, dpc>>
           /\ UNCHANGED <<q, closed, didx, dmsg, sink>>

\* The end of the variant's sequence, and the goroutine it starts:
\*   go l.drainChannel()
\*   l.wg.Wait()
\*   os.Exit(0)
\* While the thread is at the wait, either the drain goroutine takes a step
\* or the wait returns and the process exits with status 0.
SeqDrainExit(t) ==
    /\ Running
    /\ pc[t] \in {"go", "wait2"}
    /\ \/ /\ pc[t] = "go"
          /\ dpc' = [dpc EXCEPT ![t] = "range"]
          /\ pc' = [pc EXCEPT ![t] = "wait2"]
          /\ UNCHANGED <<q, closed, didx, dmsg, sink, wgVars, procVars>>
       \/ /\ pc[t] = "wait2"
          /\ DrainCanStep(t)
          /\ drainChannel(t)
          /\ pc' = pc
       \/ /\ pc[t] = "wait2"
          /\ WgWaitReturns
          /\ Exit(0)
          /\ pc' = [pc EXCEPT ![t] = "exited"]
          /\ UNCHANGED <<q, closed, drainVars, sink, wgVars>>
    /\ UNCHANGED <<cfgVars, doneClosed, quitq, sigq, shutq, arg, mmsg,
                   envVars>>

NextShutdownChan ==
    \/ StartMediate
    \/ MedQuit
    \/ \E c \in Mediated : MedRecv(c)
    \/ MedPrint
    \/ MedSig
    \/ MedShutdown
    \/ SeqClose(Med)
    \/ SeqWait1(Med)
    \/ SeqReport(Med)
    \/ SeqShutMsg(Med)
    \/ SeqAdd(Med)
    \/ SeqDrainExit(Med)
    \/ \E k \in Kinds : Error(k)
    \/ \E k \in Kinds : Warning(k)
    \/ \E k \in Kinds : Info(k)
    \/ \E k \in Kinds : Debug(k)
    \/ Quit
    \/ \E k \in Kinds : Critical(k)
    \/ ShutdownSend
    \/ \E u \in Units : AddToWaitGroup(u)
    \/ \E u \in Units : Done(u)
    \/ Signal

SpecShutdownChan == Init /\ [][NextShutdownChan]_vars

FairnessShutdownChan ==
    /\ WF_vars(StartMediate)
    /\ SF_vars(MedQuit)
    /\ SF_vars(MedSig)
    /\ SF_vars(MedShutdown)
    /\ \A c \in Mediated : SF_vars(MedRecv(c))
    /\ WF_vars(MedPrint)
    /\ WF_vars(SeqClose(Med))
    /\ WF_vars(SeqWait1(Med))
    /\ WF_vars(SeqReport(Med))
    /\ WF_vars(SeqShutMsg(Med))
    /\ WF_vars(SeqAdd(Med))
    /\ WF_vars(SeqDrainExit(Med))
    /\ \A u \in Units : WF_vars(Done(u))

FairSpecShutdownChan ==
    Init /\ [][NextShutdownChan]_vars /\ FairnessShutdownChan

\* ------------------------------------------------- the lookups by themselves
\* A caller evaluates e.String(), e.Color() or e.channel() on any errorType
\* value; looked keeps the last lookup of each.
LookupString(e, now) ==
    /\ looked' = [looked EXCEPT !.String =
                     [made |-> TRUE, e |-> e, now |-> now,
                      out |-> String(e, now)]]
    /\ UNCHANGED <<verbose, chanVars, wgVars, thrVars, drainVars, sink,
                   procVars, envVars>>

LookupColor(e) ==
    /\ looked' = [looked EXCEPT !.Color =
                     [made |-> TRUE, e |-> e, out |-> Color(e)]]
    /\ UNCHANGED <<verbose, chanVars, wgVars, thrVars, drainVars, sink,
                   procVars, envVars>>

LookupChannel(e) ==
    /\ looked' = [looked EXCEPT !.channel =
                     [made |-> TRUE, e |-> e, out |-> channel(e)]]
    /\ UNCHANGED <<verbose, chanVars, wgVars, thrVars, drainVars, sink,
                   procVars, envVars>>

NextLookup ==
    \/ \E e \in ErrorTypes, now \in Clock : LookupString(e, now)
    \/ \E e \in ErrorTypes : LookupColor(e)
    \/ \E e \in ErrorTypes : LookupChannel(e)

SpecLookup == Init /\ [][NextLookup]_vars

\* ------------------------------------------------------------ claims
\* Message id has been written to the sink.
InSink(id) == \E i \in 1..Len(sink) : sink[i].what = "msg" /\ sink[i].id = id

\* Message id sits in a queue with a payload cioe cannot display.
Undisplayable(id) ==
    \E c \in Severities : \E i \in 1..Len(q[c]) :
        q[c][i].id = id /\ cioe(q[c][i]) = 0

\* C1: when a Shutdown(nil) call (made once the mediator loop runs) has
\* finished, every message with an error or string payload that was enqueued
\* before the call was made has been written to the sink.
C1_EnqueuedBeforeShutdownDelivered ==
    \A t \in Callers :
        (pc[t] = "returned" /\ arg[t] = "nil" /\ ~early) =>
            \A id \in 1..mark : InSink(id) \/ Undisplayable(id)

\* C2: a shutdown sequence the mediator loop starts on an OS signal does not
\* stay parked at its Work Tracker wait: it gets past it (or the process
\* ends).
C2_SignalSequenceCompletes ==
    (pc[Med] = "wait1") ~> (pc[Med] # "wait1" \/ ~Running)

\* C3: no shutdown trigger closes the done channel a second time.
C3_DoneClosedOnce == fault # "close of closed channel"

\* C4: once a drain pass has completed, every severity queue is empty and
\* closed.
C4_DrainedQueuesEmptyAndClosed ==
    \A t \in Threads :
        dpc[t] = "done" => \A c \in Severities : closed[c] /\ q[c] = <<>>

\* C5: the lines of one severity are in the sink in the order of their emit
\* calls (message ids grow in the order the calls are made).
C5_FifoPerSeverity ==
    \A i \in 1..Len(sink) : \A j \in 1..Len(sink) :
        (/\ i < j
         /\ sink[i].what = "msg"
         /\ sink[j].what = "msg"
         /\ sink[i].log = sink[j].log) => sink[i].id < sink[j].id

\* A thread is parked at one of the two l.wg.Wait() of the sequence.
AtWait(t) == pc[t] \in {"wait1", "wait2"}

\* C6: a Work Tracker wait of the shutdown sequence returns only when as many
\* Done calls as AddToWaitGroup calls have been made, and while the process
\* runs a wait with the two counts equal is free to return.
C6_WaitReturnsIffCountsEqual ==
    /\ [][\A t \in Threads :
            (AtWait(t) /\ pc'[t] # pc[t]) => adds = dones]_vars
    /\ [](\A t \in Threads :
            (Running /\ AtWait(t) /\ adds = dones) =>
                ENABLED (SeqWait1(t) \/ SeqWait2(t)))

\* C6 witness: a wait has returned after a background unit registered and
\* finished next to the mediator.
C6_Witness ==
    \E t \in Callers : \E u \in Units :
        /\ pc[t] = "report"
        /\ units[u] = "finished"
        /\ pc[Med] = "stopped"
        /\ adds = dones
        /\ adds >= 2

\* The error path of the sequence, taken by itself: a Shutdown call with an
\* error never returns to its caller and never goes on to the drain; the
\* process never exits with status 0; and when the call has reached its
\* os.Exit the status is 1 and the error text is in the sink.
ErrorPathExitsOne ==
    /\ exitStatus # 0
    /\ \A t \in Callers :
          arg[t] = "err" =>
            /\ pc[t] \notin {"shutmsg", "add", "go", "wait2", "ret", "returned"}
            /\ pc[t] \in {"exit1", "exited"} =>
                  \E i \in 1..Len(sink) : sink[i].what = "error"
            /\ pc[t] = "exited" => exitStatus = 1

\* The one trigger is a Shutdown call by caller 1 with argument e, made after
\* the mediator loop registered itself; the process runs, there was no Quit
\* call and no signal, and the environment makes no further call.
OnlyTrigger(e) ==
    /\ Running
    /\ pc[1] = "wait1"
    /\ arg[1] = e
    /\ ~early
    /\ pc[Med] \in {"select", "print", "stopped"}
    /\ quitMark = -1
    /\ sigq = 0
    /\ calls = MaxCalls

\* The Shutdown call of caller 1 has ended the process with status 1, the
\* error text written.
ExitedOne ==
    /\ pc[1] = "exited"
    /\ exitStatus = 1
    /\ \E i \in 1..Len(sink) : sink[i].what = "error"

\* C7: a Shutdown call with an error, the only trigger, ends with the error
\* text written to the sink and the process exiting with status 1.
C7_ErrorShutdownExitsOne == OnlyTrigger("err") ~> ExitedOne

\* C8: a shutdown sequence without a terminal error never hands control back:
\* no Shutdown(nil) call returns, and the process exit status is 0 once the
\* sequence has got past its second wait.
C8_SuccessPathExitsZero ==
    \A t \in Threads :
        (arg[t] = "nil" /\ pc[t] \in {"ret", "returned"}) => exitStatus = 0

\* C9: no message enqueued after the first Quit call returned is in the sink.
C9_NothingDeliveredAfterQuit ==
    quitMark # -1 =>
        \A i \in 1..Len(sink) : sink[i].what = "msg" => sink[i].id <= quitMark

\* C10: such a Shutdown(nil) call gets past both waits and finishes.
C10_ShutdownNilFinishes == OnlyTrigger("nil") ~> (pc[1] = "returned")

\* Every payload still to be printed is an error or a string.
AllDisplayable ==
    /\ \A c \in Severities : \A i \in 1..Len(q[c]) : cioe(q[c][i]) # 0
    /\ pc[Med] = "print" => cioe(mmsg.m) # 0

\* With displayable payloads only, that Shutdown(nil) call does finish.
ShutdownNilFinishesDisplayable ==
    (OnlyTrigger("nil") /\ AllDisplayable) ~> (pc[1] = "returned")

\* With displayable payloads only, the Shutdown call with an error does end
\* the process with status 1.
ErrorShutdownExitsOneDisplayable ==
    (OnlyTrigger("err") /\ AllDisplayable) ~> ExitedOne

\* The one trigger of the variant is a Shutdown() call; the mediator loop
\* has taken it and runs the sequence, no background unit ever registered,
\* there was no signal, every buffered payload is an error or a string, the
\* process runs and the environment makes no further call.
ShutdownChanOnly ==
    /\ Running
    /\ mark # -1
    /\ pc[Med] \in {"close", "wait1", "report", "shutmsg", "add", "go",
                    "wait2"}
    /\ \A i \in 1..Len(sink) : sink[i].what # "signal"
    /\ sigq = 0
    /\ \A u \in Units : units[u] = "idle"
    /\ \A c \in Severities : \A i \in 1..Len(q[c]) : cioe(q[c][i]) # 0
    /\ calls = MaxCalls

\* C11 (variant of src/unnamed/part_001): a single Shutdown() call with no
\* registered background unit leads to every buffered message written, the
\* five severity queues closed and the process exited with status 0.
C11_ShutdownChanExitsZero ==
    ShutdownChanOnly ~>
        /\ exitStatus = 0
        /\ \A c \in Severities : closed[c] /\ q[c] = <<>>

\* In the variant the drain goroutine never gets past its first queue:
\* nothing sends on CRITICAL and nothing closes it before the range loops
\* end, so the goroutine receives nothing, closes nothing, and the process
\* never exits with status 0.
DrainChannelStuck ==
    /\ \A t \in Threads : dpc[t] \in {"none", "range"} /\ didx[t] = 1
    /\ \A c \in Severities : ~closed[c]
    /\ exitStatus # 0

\* C12: when a Critical call has ended the process, the shutdown sequence
\* has run first: the done channel is closed and the uptime is reported.
C12_CriticalRunsSequence ==
    (\E i \in 1..Len(sink) : sink[i].what = "fatal") =>
        /\ doneClosed
        /\ \E j \in 1..Len(sink) : sink[j].what = "uptime"

\* A goroutine is at its Println with a received payload that is neither an
\* error nor a string (the zero value of a closed channel has id 0).
HoldsMalformed ==
    \/ pc[Med] = "print" /\ mmsg.m.id > 0 /\ cioe(mmsg.m) = 0
    \/ \E t \in Threads :
          dpc[t] = "print" /\ dmsg[t].id > 0 /\ cioe(dmsg[t]) = 0

\* C13: handling a payload that is neither an error nor a string raises no
\* fault in the mediator loop nor in the drain pass.
C13_MalformedPayloadNoFault == ~(HoldsMalformed /\ fault = "nil dereference")

\* The mediator goroutine is in (or on its way into) the loop of
\* mediateChannels.
MediatorRuns ==
    Running /\ pc[Med] \in {"start", "register", "select", "print"}

\* A step leaves queue c alone, appends one value to it, or takes its oldest
\* value.
QueueStep(c) ==
    \/ q'[c] = q[c]
    \/ /\ Len(q'[c]) = Len(q[c]) + 1
       /\ SubSeq(q'[c], 1, Len(q[c])) = q[c]
    \/ Len(q[c]) > 0 /\ q'[c] = Tail(q[c])

\* C14: no queue ever holds more than its capacity; an emit on a queue with
\* room can be made at once; an emit on a queue at capacity is blocked; no
\* step drops or overwrites a buffered value; and a queue at capacity gets
\* room again as long as the mediator loop runs.
C14_Backpressure ==
    /\ [](\A c \in Severities : Len(q[c]) <= BufSize)
    /\ [](\A c \in Mediated :
            (Running /\ calls < MaxCalls /\ Len(q[c]) < BufSize) =>
                ENABLED Send(c, "string"))
    /\ [](\A c \in Mediated :
            (~closed[c] /\ Len(q[c]) = BufSize) =>
                \A k \in Kinds : ~ENABLED Send(c, k))
    /\ [][\A c \in Severities : QueueStep(c)]_vars
    /\ \A c \in Mediated :
          (Len(q[c]) = BufSize) ~> (Len(q[c]) < BufSize \/ ~MediatorRuns)

\* C14 witness: a queue is at capacity while the mediator loop runs and the
\* client has a further emit to make.
C14_Witness ==
    \E c \in Mediated :
        /\ Len(q[c]) = BufSize
        /\ pc[Med] = "select"
        /\ Running
        /\ calls < MaxCalls

\* The part of C14 that is about states and steps, for the whole logger:
\* shutdown, drain and signals included.
QueuesWithinCapacity ==
    /\ [](\A c \in Severities : Len(q[c]) <= BufSize)
    /\ [](\A c \in Mediated :
            (Running /\ calls < MaxCalls /\ Len(q[c]) < BufSize) =>
                ENABLED Send(c, "string"))
    /\ [](\A c \in Mediated :
            (~closed[c] /\ Len(q[c]) = BufSize) =>
                \A k \in Kinds : ~ENABLED Send(c, k))
    /\ [][\A c \in Severities : QueueStep(c)]_vars

\* C15: with verbose off a Debug call changes no queue, closes nothing,
\* writes nothing to the sink and does not end the process; and it can always
\* be made at once, whatever the state of the debug queue.
C15_DebugNoOp ==
    /\ [][\A k \in Kinds :
            (~verbose /\ Debug(k)) =>
                /\ q' = q
                /\ closed' = closed
                /\ sink' = sink
                /\ exitStatus' = exitStatus]_vars
    /\ [](( ~verbose /\ Running /\ calls < MaxCalls) =>
            \A k \in Kinds : ENABLED Debug(k))

\* C15 witness: with verbose off the client has made MaxCalls calls, all of
\* them Debug calls: no other call leaves every one of these untouched.
C15_Witness ==
    /\ ~verbose
    /\ Running
    /\ calls = MaxCalls
    /\ emitted = 0
    /\ sink = <<>>
    /\ quitq = 0 /\ quitMark = -1
    /\ sigq = 0
    /\ \A u \in Units : units[u] = "idle"
    /\ \A t \in Callers : pc[t] = "idle"

\* C16: no message is written to the sink twice.
C16_AtMostOnce ==
    \A i \in 1..Len(sink) : \A j \in 1..Len(sink) :
        (i # j /\ sink[i].what = "msg" /\ sink[j].what = "msg") =>
            sink[i].id # sink[j].id

\* C16 witness: a drain pass has run next to the mediator loop (the Shutdown
\* call came before the mediator registered) and the sink holds two messages,
\* one of them enqueued after the Shutdown call was made.
C16_Witness ==
    /\ early
    /\ \E t \in Callers : dpc[t] = "done"
    /\ \E i \in 1..Len(sink) : \E j \in 1..Len(sink) :
          /\ i # j
          /\ sink[i].what = "msg"
          /\ sink[j].what = "msg"
          /\ sink[j].id > mark

\* Thread t is in the shutdown sequence, past close(l.chans.done).
PastClose(t) ==
    pc[t] \in {"wait1", "report", "errmsg", "exit1", "exited", "shutmsg",
               "add", "go", "wait2", "ret", "returned"}

\* The uptime line is in the sink.
UptimeReported == \E i \in 1..Len(sink) : sink[i].what = "uptime"

\* C17: the done channel is closed before a sequence waits; a sequence goes
\* on to its uptime report only from its first wait and only with the Work
\* Tracker at zero; and once a drain goroutine exists the uptime has been
\* reported and no unit that registered before the done channel was closed
\* is outstanding.
C17_SequenceOrder ==
    /\ [](\A t \in Threads : PastClose(t) => doneClosed)
    /\ [][\A t \in Threads :
            (pc'[t] = "report" /\ pc[t] # "report") =>
                (pc[t] = "wait1" /\ wg = 0)]_vars
    /\ [](\A t \in Threads :
            dpc[t] # "none" =>
                /\ UptimeReported
                /\ \A u \in Units : units[u] # "working")

\* C17 witness: a drain pass has run in a sequence started after the mediator
\* registered, with a unit that had registered before the done channel was
\* closed and has finished.
C17_Witness ==
    /\ ~early
    /\ \E t \in Callers : dpc[t] = "done"
    /\ \E u \in Units : units[u] = "finished"
    /\ adds = 3

\* C18: a Shutdown call with an error that has closed the done channel never
\* starts a drain goroutine and no severity queue is ever closed; when it
\* has ended the process, the messages still buffered are not in the sink
\* and the process is over.
C18_ErrorExitBeforeDrain ==
    \A t \in Callers :
        (arg[t] = "err" /\ PastClose(t)) =>
            /\ \A t2 \in Threads : dpc[t2] = "none"
            /\ \A c \in Severities : ~closed[c]
            /\ pc[t] \in {"wait1", "report", "errmsg", "exit1", "exited"}
            /\ pc[t] = "exited" =>
                  /\ ~Running
                  /\ \A c \in Severities : \A i \in 1..Len(q[c]) :
                        ~InSink(q[c][i].id)

\* C18 witness: a Shutdown call with an error has ended the process with a
\* message still buffered.
C18_Witness ==
    \E t \in Callers :
        /\ arg[t] = "err"
        /\ pc[t] = "exited"
        /\ exitStatus = 1
        /\ \E c \in Mediated : Len(q[c]) > 0

\* The drain goroutine started by thread t is at work and has received a
\* value or closed a queue.
DrainActed(t) ==
    \/ dpc[t] = "print"
    \/ dpc[t] \in {"select", "ret"} /\ didx[t] > 1

\* C19: while a drain goroutine that has received from or closed a queue is
\* at work, the mediator goroutine is not in the loop of mediateChannels.
C19_SingleConsumer ==
    \A t \in Threads :
        DrainActed(t) => pc[Med] \notin {"select", "print"}

\* The goroutines that are at a statement that writes to the sink.
Writers ==
    {t \in Threads :
        pc[t] \in {"print", "report", "errmsg", "shutmsg"}}

\* The drain goroutines that are at their Println.
DrainWriters == {t \in Threads : dpc[t] = "print"}

\* C20: at most one goroutine is at a write to the sink at any time.
C20_SingleWriter == Cardinality(Writers) + Cardinality(DrainWriters) <= 1

\* The mediator loop has taken the quit case: its line is in the sink.
QuitTaken == \E i \in 1..Len(sink) : sink[i].what = "quit"

\* C21: the step in which the mediator loop receives the quit request takes
\* it to its stopped state, starts no drain, closes neither a severity queue
\* nor the done channel, leaves every severity queue as it is and does not
\* end the process; from then on the mediator goroutine stays stopped (it
\* receives and prints nothing more).
C21_QuitStopsDirectly ==
    /\ [][MedQuit =>
            /\ pc'[Med] = "stopped"
            /\ dpc' = dpc
            /\ closed' = closed
            /\ doneClosed' = doneClosed
            /\ q' = q
            /\ exitStatus' = exitStatus
            /\ wg' = wg]_vars
    /\ [](QuitTaken => pc[Med] = "stopped" /\ mmsg.m = NilMsg)

\* C21 witness: the mediator loop stopped on a quit request while a message
\* was buffered, and a message was enqueued after that; the process runs.
C21_Witness ==
    /\ QuitTaken
    /\ pc[Med] = "stopped"
    /\ Running
    /\ \E c \in Mediated : Len(q[c]) = 2
    /\ emitted > quitMark
    /\ ~doneClosed

\* The mediator loop has taken the signal case: its line is in the sink.
SignalTaken == \E i \in 1..Len(sink) : sink[i].what = "signal"

\* Where the mediator goroutine is once it has taken the done case or the
\* signal case: stopped, or in the shutdown sequence it runs itself.
MedGraceful ==
    pc[Med] \in {"stopped", "close", "wait1", "report", "shutmsg", "add",
                 "go", "wait2", "ret"}

\* C22: once the mediator loop has taken the done case or the signal case it
\* is never again at its select nor at a Println of the loop: no step takes
\* it back there, and after a signal was taken it is not there.
C22_NoReturnToRunning ==
    /\ [][MedDone => pc'[Med] = "stopped"]_vars
    /\ [][MedSig => pc'[Med] = "close"]_vars
    /\ [][MedGraceful => pc'[Med] \notin {"select", "print"}]_vars
    /\ [](SignalTaken => MedGraceful /\ pc[Med] # "stopped")

\* C22 witness: the mediator loop took the signal case with a message still
\* buffered and a further message enqueued afterwards; the process runs and
\* the environment has made all its calls.
C22_Witness ==
    /\ SignalTaken
    /\ pc[Med] = "wait1"
    /\ Running
    /\ \E c \in Mediated : Len(q[c]) = 2
    /\ calls = MaxCalls

\* C23: no emit call ever sends on a severity queue that is closed.
C23_NoSendOnClosedQueue == fault # "send on closed channel"

\* C24: the Work Tracker counter is never negative and no Done call finds it
\* at zero (which would panic); it is the number of AddToWaitGroup calls
\* minus the number of Done calls.
C24_CounterNonNegative ==
    /\ wg >= 0
    /\ wg = adds - dones
    /\ fault # "negative WaitGroup counter"

\* C24 witness: the mediator, a background unit and a drain goroutine have
\* each registered and called Done, and the counter is back at zero.
C24_Witness ==
    /\ wg = 0
    /\ dones = 3
    /\ pc[Med] = "stopped"
    /\ \E u \in Units : units[u] = "finished"
    /\ \E t \in Callers : dpc[t] = "done"

\* Lines i < j of the sink are messages of two severities, the later line
\* carrying the message that was enqueued first.
Swapped(i, j) ==
    /\ i < j
    /\ sink[i].what = "msg"
    /\ sink[j].what = "msg"
    /\ sink[i].log # sink[j].log
    /\ sink[i].id > sink[j].id

\* The mediator loop alone has delivered two messages of two severities
\* against the order of their emit calls.
LoopDeliversOutOfOrder ==
    /\ ~doneClosed
    /\ \E i \in 1..Len(sink) : \E j \in 1..Len(sink) : Swapped(i, j)

\* The mediator loop alone has delivered two messages of two severities in
\* the order of their emit calls.
LoopDeliversInOrder ==
    /\ ~doneClosed
    /\ \E i \in 1..Len(sink) : \E j \in 1..Len(sink) :
          /\ i < j
          /\ sink[i].what = "msg"
          /\ sink[j].what = "msg"
          /\ sink[i].log # sink[j].log
          /\ sink[i].id < sink[j].id

\* After a Shutdown call the mediator is at its select with the done channel
\* closed and a message in queue c that was enqueued before the call.
LoopMayTakeBuffered(c) ==
    /\ Running
    /\ pc[Med] = "select"
    /\ doneClosed
    /\ Len(q[c]) > 0
    /\ q[c][1].id <= mark

\* C25: the select of the mediator loop is free to take any severity queue
\* that holds a message, whatever the order of the emit calls; and with the
\* done channel closed and a message buffered since before the Shutdown call
\* it is free to deliver that message or to take the done case and leave the
\* message to the drain pass.
C25_OrderNotFixed ==
    /\ \A a \in Mediated : \A b \in Mediated \ {a} :
          (/\ Running
           /\ pc[Med] = "select"
           /\ Len(q[a]) > 0
           /\ Len(q[b]) > 0) => ENABLED MedRecv(a) /\ ENABLED MedRecv(b)
    /\ \A c \in Mediated :
          LoopMayTakeBuffered(c) => ENABLED MedRecv(c) /\ ENABLED MedDone

\* C25 witness: in a run whose Shutdown(nil) call came after the mediator
\* registered, the mediator loop delivered a message of one severity, and
\* after the "Shutting Down..." line the drain pass delivered a message of
\* another severity that had been enqueued earlier, before the call.
C25_Witness ==
    /\ ~early
    /\ \E i \in 1..Len(sink) : \E j \in 1..Len(sink) :
          /\ Swapped(i, j)
          /\ sink[j].id <= mark
          /\ \E k \in 1..Len(sink) :
                i < k /\ k < j /\ sink[k].what = "shutting"

\* The errorType values String and Color have a case for.
Labelled == {DEBUG, CRITICAL, ERROR, WARNING, INFO}

\* C26: for every errorType value other than DEBUG, CRITICAL, ERROR, WARNING
\* and INFO, String gives the INFO label in the INFO color and Color gives
\* the INFO color; for every value other than these five, DONE and INTSIGNAL,
\* channel gives the info queue; and every lookup yields a proper value.
C26_LookupsDefaultToInfo ==
    /\ (looked.String.made /\ looked.String.e \notin Labelled) =>
          /\ looked.String.out =
                <<looked.String.now, ":", "ESC[97m", "INFO:", "ESC[0m">>
          /\ looked.String.out = String(INFO, looked.String.now)
    /\ (looked.Color.made /\ looked.Color.e \notin Labelled) =>
          /\ looked.Color.out = WHITE
          /\ looked.Color.out = Color(INFO)
    /\ (/\ looked.channel.made
        /\ looked.channel.e \notin Labelled \cup {DONE, INTSIGNAL}) =>
          looked.channel.out = "info"
    /\ Len(looked.String.out) \in {0, 5}
    /\ looked.Color.out \in RED..BLUE
    /\ looked.channel.out \in ChanNames

\* C26 witness: the three lookups were last made on values without a case
\* of their own: an integer beyond QUIT, an integer below DEBUG, and QUIT.
C26_Witness ==
    /\ looked.String.made /\ looked.String.e = QUIT + OutOfRange
    /\ looked.Color.made /\ looked.Color.e = DEBUG - OutOfRange
    /\ looked.channel.made /\ looked.channel.e = QUIT

\* C27: once the mediator loop has stopped through the quit case the Work
\* Tracker counter is at least 1 in every later state; a Shutdown call that
\* then closes the done channel goes to its first wait; and no caller that
\* is at its first wait leaves it any more, so its sequence neither reports
\* the uptime, nor starts a drain, nor exits the process.
C27_QuitLeavesShutdownWaiting ==
    /\ [](QuitTaken => wg >= 1)
    /\ [][\A t \in Callers :
            (QuitTaken /\ pc[t] = "idle" /\ ~doneClosed /\ pc'[t] # "idle") =>
                (doneClosed' /\ pc'[t] = "wait1" /\ exitStatus' = -1)]_vars
    /\ [][\A t \in Callers :
            (QuitTaken /\ pc[t] = "wait1") => pc'[t] = "wait1"]_vars
    /\ [](\A t \in Callers :
            (QuitTaken /\ pc[t] = "wait1") => dpc[t] = "none")

\* C27 witness: the mediator loop has stopped through the quit case, a
\* Shutdown call with an error made after the Quit call has closed the done
\* channel and is at its first wait with the counter at 1; the process runs.
C27_Witness ==
    /\ QuitTaken
    /\ pc[Med] = "stopped"
    /\ ~early
    /\ \E t \in Callers : pc[t] = "wait1" /\ arg[t] = "err"
    /\ mark > quitMark
    /\ quitMark # -1
    /\ wg = 1
    /\ Running
    /\ calls = MaxCalls

\* The drain goroutine started by thread t makes its attempt on a queue in
\* this step: it is at its select and moves on.
DrainAttempts(t) ==
    /\ dpc[t] = "select"
    /\ <<dpc[t], didx[t]>>' # <<dpc[t], didx[t]>>

\* The drain pass but for its Println: the queues are visited in the order
\* ERROR, WARNING, INFO, DEBUG, once each; an attempt on a queue holding a
\* message takes the oldest and leaves the rest in the open queue, an
\* attempt on an empty queue closes it, and neither touches another queue;
\* CRITICAL is never read nor closed; the goroutine can always take its next
\* step; and it calls Done once, as its last step.
DrainOnePerQueue ==
    /\ chList = <<"ERROR", "WARNING", "INFO", "DEBUG">>
    /\ [][\A t \in Threads :
            DrainAttempts(t) =>
                LET c == chList[didx[t]] IN
                /\ Len(q[c]) >= 1 =>
                      /\ dmsg'[t] = Head(q[c])
                      /\ q'[c] = Tail(q[c])
                      /\ ~closed'[c]
                      /\ dpc'[t] = "print"
                      /\ didx'[t] = didx[t]
                /\ Len(q[c]) = 0 =>
                      /\ closed'[c]
                      /\ q'[c] = <<>>
                      /\ didx'[t] = IF didx[t] < 4 THEN didx[t] + 1 ELSE 4
                      /\ dpc'[t] = IF didx[t] < 4 THEN "select" ELSE "ret"
                /\ \A c2 \in Severities \ {c} :
                      q'[c2] = q[c2] /\ closed'[c2] = closed[c2]]_vars
    /\ [][\A t \in Threads :
            (dpc[t] = "print" /\ dpc'[t] # "print") =>
                /\ didx'[t] = IF didx[t] < 4 THEN didx[t] + 1 ELSE 4
                /\ dpc'[t] = IF didx[t] < 4 THEN "select" ELSE "ret"]_vars
    /\ [](~closed["CRITICAL"] /\ q["CRITICAL"] = <<>>)
    /\ [](\A t \in Threads :
            (Running /\ dpc[t] \in {"select", "print", "ret"}) =>
                ENABLED drainLogChannels(t))
    /\ [][\A t \in Threads :
            /\ (dpc[t] = "none" /\ dpc'[t] # "none") =>
                  dpc'[t] = "select" /\ didx[t] = 1
            /\ (dpc[t] # "done" /\ dpc'[t] = "done") =>
                  dpc[t] = "ret" /\ wg' = wg - 1 /\ dones' = dones + 1
            /\ dpc[t] = "done" => dpc'[t] = "done"
            /\ (DrainSelect(t) \/ DrainPrint(t)) => wg' = wg]_vars

\* C28: the drain pass is as DrainOnePerQueue says, and the message it takes
\* from a queue is written to the sink by its Println.
C28_DrainSingleAttempt ==
    /\ DrainOnePerQueue
    /\ [][\A t \in Threads :
            DrainPrint(t) =>
                /\ sink' = Append(sink, Line(chList[didx[t]], "msg",
                                             dmsg[t].id))
                /\ exitStatus' = -1]_vars

\* The drain pass is as C28 says as far as the messages it takes have an
\* error or a string as payload.
DrainSingleAttemptDisplayable ==
    /\ DrainOnePerQueue
    /\ [][\A t \in Threads :
            (DrainPrint(t) /\ cioe(dmsg[t]) # 0) =>
                /\ sink' = Append(sink, Line(chList[didx[t]], "msg",
                                             dmsg[t].id))
                /\ exitStatus' = -1]_vars

\* A drain pass has completed that took a message from a queue holding two
\* and closed another.
DrainLeftOne ==
    \E t \in Threads :
        /\ dpc[t] = "done"
        /\ pc[Med] = "stopped"
        /\ \E c \in Mediated : Len(q[c]) = 1 /\ ~closed[c]
        /\ \E c \in Mediated : closed[c]
        /\ \E i \in 1..Len(sink) : sink[i].what = "msg"

====
